---------------------------- MODULE Spec2Model ----------------------------
(* Model of data_retrieval/map_worker.py: one invocation of main() after   *)
(* another, each driving the datawrapper API through DataWrapperMap.        *)
(* Strings that are transcoded (the csv fields, the PUT body) are sequences *)
(* of one-character strings; map ids and embed snippets are opaque and are  *)
(* numbered 1..NumIds and 1..NumSnippets.                                   *)
EXTENDS Integers, Sequences, FiniteSets, TLC

VARIABLES status, run_type, pc, map_id, cfgMapId, htmlFile, calls, sent,
          exc, exitCode, csvRows, runs, created, cfgAtStart, htmlAtStart

vars == <<status, run_type, pc, map_id, cfgMapId, htmlFile, calls, sent,
          exc, exitCode, csvRows, runs, created, cfgAtStart, htmlAtStart>>

(* ------------------------------ bounds --------------------------------- *)
MaxRuns == 3
NumIds == 2
NumSnippets == 2
MaxRows == 2
MaxFields == 2
MaxFieldLen == 1

(* --------------------------- value domains ----------------------------- *)
Ids == 1..NumIds
NoId == 0
Snippets == 1..NumSnippets
NoFile == 0
Truncated == -1
NoPayload == <<"?">>

RunTypes == {"create", "update", "other"}

Chars == {"A", "5"}

SeqsUpTo(S, n) == UNION {[1..k -> S] : k \in 0..n}

CsvFields == SeqsUpTo(Chars, MaxFieldLen)
CsvRowSet == SeqsUpTo(CsvFields, MaxFields)
CsvInputs == SeqsUpTo(CsvRowSet, MaxRows)

ExampleCsv == <<(<<(<<"A">>), (<<"5">>)>>), (<<(<<"A">>), (<<"5">>)>>)>>

(* ------------------------- the remote service -------------------------- *)
(* A response is its HTTP status (ok) and its body: json says whether the  *)
(* body parses as JSON, the remaining field what the parsed body holds.    *)
(* A 2xx answer carries the documented body; a failed one carries an error *)
(* object or a non-JSON page, neither with the fields the caller reads.    *)
CreateResponses ==
    {[ok |-> TRUE, json |-> TRUE, id |-> i] : i \in Ids}
    \cup {[ok |-> FALSE, json |-> j, id |-> NoId] : j \in BOOLEAN}

PublishResponses ==
    {[ok |-> TRUE, json |-> TRUE, publish |-> TRUE, snippet |-> s] : s \in Snippets}
    \cup {[ok |-> FALSE, json |-> j, publish |-> FALSE, snippet |-> NoFile] : j \in BOOLEAN}

(* ------------------------------ workflow ------------------------------- *)
(* publish without stamping the timestamp first *)
publish_map_unstamped == <<"publish_request">>

publish_map == <<"set_last_update_timestamp", "publish_request">>

(* the metadata is configured before the map exists *)
run_map_creation_configure_first ==
    <<"configure_map_settings", "create_choropleth", "add_map_tooltip",
      "update_map_data">> \o publish_map

run_map_creation ==
    <<"create_choropleth", "configure_map_settings", "add_map_tooltip",
      "update_map_data">> \o publish_map

run_map_update == <<"update_map_data">> \o publish_map

(* anything that is not "create" is taken for an update *)
main_else_update(rt) ==
    IF rt = "create" THEN run_map_creation
    ELSE run_map_update

main(rt) ==
    IF rt = "create" THEN run_map_creation
    ELSE IF rt = "update" THEN run_map_update
    ELSE <<>>

Program == main(run_type)

AtStep(name) ==
    /\ status = "running"
    /\ pc \in 1..Len(Program)
    /\ Program[pc] = name

(* one entry of the run's trace: the request (or local write), the map id *)
(* it addresses, whether it succeeded, and the value read from its answer *)
Call(op, id, ok, ret) == [op |-> op, id |-> id, ok |-> ok, ret |-> ret]

(* ---------------------------- pure helpers ----------------------------- *)
RECURSIVE join(_, _)
join(sep, row) ==
    IF row = <<>> THEN <<>>
    ELSE IF Len(row) = 1 THEN row[1]
    ELSE row[1] \o sep \o join(sep, Tail(row))

RECURSIVE county_loop(_, _)
county_loop(county_results, rows) ==
    IF rows = <<>> THEN county_results
    ELSE county_loop(county_results \o join(<<",", " ">>, Head(rows)) \o <<"\n">>,
                     Tail(rows))

(* a row equal to the one before it is skipped *)
RECURSIVE county_loop_dedup(_, _, _)
county_loop_dedup(acc, rows, prev) ==
    IF rows = <<>> THEN acc
    ELSE IF <<Head(rows)>> = prev THEN county_loop_dedup(acc, Tail(rows), prev)
    ELSE county_loop_dedup(acc \o join(<<",", " ">>, Head(rows)) \o <<"\n">>,
                           Tail(rows), <<Head(rows)>>)

county_results_dedup(rows) == county_loop_dedup(<<>>, rows, <<>>)

county_results(rows) == county_loop(<<>>, rows)

(* the new id is kept in memory only, config.ini is left as it was *)
set_map_id_not_written(cfg, mid) == cfg

set_map_id(cfg, mid) == mid

(* a missing 'id' is read as the empty id instead of raising *)
response_id_lenient(resp) ==
    IF ~resp.json THEN [exc |-> "JSONDecodeError", id |-> NoId]
    ELSE [exc |-> "none", id |-> resp.id]

response_id(resp) ==
    IF ~resp.json THEN [exc |-> "JSONDecodeError", id |-> NoId]
    ELSE IF resp.id = NoId THEN [exc |-> "KeyError", id |-> NoId]
    ELSE [exc |-> "none", id |-> resp.id]

(* the output file is opened for writing before the response is read *)
write_html_open_first(old, resp) ==
    IF ~resp.json THEN [exc |-> "JSONDecodeError", file |-> Truncated]
    ELSE IF ~resp.publish THEN [exc |-> "KeyError", file |-> Truncated]
    ELSE IF resp.snippet = NoFile THEN [exc |-> "KeyError", file |-> Truncated]
    ELSE [exc |-> "none", file |-> resp.snippet]

write_html(old, resp) ==
    IF ~resp.json THEN [exc |-> "JSONDecodeError", file |-> old]
    ELSE IF ~resp.publish THEN [exc |-> "KeyError", file |-> old]
    ELSE IF resp.snippet = NoFile THEN [exc |-> "KeyError", file |-> Truncated]
    ELSE [exc |-> "none", file |-> resp.snippet]

(* ------------------------------- state --------------------------------- *)
Init ==
    /\ status = "idle"
    /\ run_type = "none"
    /\ pc = 0
    /\ map_id = NoId
    /\ cfgMapId = NoId
    /\ htmlFile = NoFile
    /\ calls = <<>>
    /\ sent = NoPayload
    /\ exc = "none"
    /\ exitCode = 0
    /\ csvRows = ExampleCsv
    /\ runs = 0
    /\ created = NoId
    /\ cfgAtStart = NoId
    /\ htmlAtStart = NoFile

(* a method returned normally: go on to the next statement, or leave main *)
Return ==
    IF pc < Len(Program)
    THEN /\ pc' = pc + 1
         /\ UNCHANGED <<status, exc, exitCode>>
    ELSE /\ pc' = 0
         /\ status' = "exit"
         /\ exitCode' = 0
         /\ UNCHANGED exc

(* an exception left the method: nothing catches it, the process dies *)
Raise(e) ==
    /\ pc' = pc
    /\ status' = "exit"
    /\ exc' = e
    /\ exitCode' = 1

Main(rt) ==
    /\ status \in {"idle", "exit"}
    /\ runs < MaxRuns
    /\ runs' = runs + 1
    /\ run_type' = rt
    /\ map_id' = cfgMapId
    /\ cfgAtStart' = cfgMapId
    /\ htmlAtStart' = htmlFile
    /\ calls' = <<>>
    /\ sent' = NoPayload
    /\ exc' = "none"
    /\ IF main(rt) = <<>>
       THEN status' = "exit" /\ pc' = 0 /\ exitCode' = 0
       ELSE status' = "running" /\ pc' = 1 /\ exitCode' = 0
    /\ UNCHANGED <<cfgMapId, htmlFile, csvRows, created>>

CreateChoropleth(resp) ==
    /\ AtStep("create_choropleth")
    /\ LET r == response_id(resp) IN
       IF r.exc # "none"
       THEN /\ Raise(r.exc)
            /\ calls' = Append(calls, Call("create", NoId, resp.ok, NoId))
            /\ UNCHANGED <<map_id, cfgMapId, created>>
       ELSE /\ map_id' = r.id
            /\ created' = r.id
            /\ cfgMapId' = set_map_id(cfgMapId, r.id)
            /\ calls' = calls \o <<Call("create", NoId, resp.ok, r.id),
                                   Call("set_map_id", r.id, TRUE, NoId)>>
            /\ Return
    /\ UNCHANGED <<run_type, htmlFile, sent, csvRows, runs, cfgAtStart, htmlAtStart>>

ConfigureMapSettings(ok) ==
    /\ AtStep("configure_map_settings")
    /\ calls' = Append(calls, Call("configure", map_id, ok, NoId))
    /\ Return
    /\ UNCHANGED <<run_type, map_id, cfgMapId, htmlFile, sent, csvRows, runs,
                   created, cfgAtStart, htmlAtStart>>

AddMapTooltip(ok) ==
    /\ AtStep("add_map_tooltip")
    /\ calls' = Append(calls, Call("tooltip", map_id, ok, NoId))
    /\ Return
    /\ UNCHANGED <<run_type, map_id, cfgMapId, htmlFile, sent, csvRows, runs,
                   created, cfgAtStart, htmlAtStart>>

UpdateMapData(ok) ==
    /\ AtStep("update_map_data")
    /\ sent' = county_results(csvRows)
    /\ calls' = Append(calls, Call("data", map_id, ok, NoId))
    /\ Return
    /\ UNCHANGED <<run_type, map_id, cfgMapId, htmlFile, csvRows, runs,
                   created, cfgAtStart, htmlAtStart>>

SetLastUpdateTimestamp(ok) ==
    /\ AtStep("set_last_update_timestamp")
    /\ calls' = Append(calls, Call("timestamp", map_id, ok, NoId))
    /\ Return
    /\ UNCHANGED <<run_type, map_id, cfgMapId, htmlFile, sent, csvRows, runs,
                   created, cfgAtStart, htmlAtStart>>

PublishMap(resp) ==
    /\ AtStep("publish_request")
    /\ LET w == write_html(htmlFile, resp) IN
       /\ htmlFile' = w.file
       /\ IF w.exc # "none"
          THEN /\ Raise(w.exc)
               /\ calls' = Append(calls, Call("publish", map_id, resp.ok, NoFile))
          ELSE /\ Return
               /\ calls' = calls \o <<Call("publish", map_id, resp.ok, resp.snippet),
                                      Call("write_html", map_id, TRUE, NoFile)>>
    /\ UNCHANGED <<run_type, map_id, cfgMapId, sent, csvRows, runs,
                   created, cfgAtStart, htmlAtStart>>

Next ==
    \/ \E rt \in RunTypes : Main(rt)
    \/ \E resp \in CreateResponses : CreateChoropleth(resp)
    \/ \E ok \in BOOLEAN : ConfigureMapSettings(ok)
    \/ \E ok \in BOOLEAN : AddMapTooltip(ok)
    \/ \E ok \in BOOLEAN : UpdateMapData(ok)
    \/ \E ok \in BOOLEAN : SetLastUpdateTimestamp(ok)
    \/ \E resp \in PublishResponses : PublishMap(resp)

Spec == Init /\ [][Next]_vars

(* one invocation over any csv file on disk *)
InitCsv ==
    /\ status = "idle"
    /\ run_type = "none"
    /\ pc = 0
    /\ map_id = NoId
    /\ cfgMapId \in Ids
    /\ htmlFile = NoFile
    /\ calls = <<>>
    /\ sent = NoPayload
    /\ exc = "none"
    /\ exitCode = 0
    /\ csvRows \in CsvInputs
    /\ runs = MaxRuns - 1
    /\ created = cfgMapId
    /\ cfgAtStart = cfgMapId
    /\ htmlAtStart = NoFile

SpecCsv == InitCsv /\ [][Next]_vars

TypeOK ==
    /\ status \in {"idle", "running", "exit"}
    /\ run_type \in RunTypes \cup {"none"}
    /\ pc \in 0..Len(run_map_creation)
    /\ map_id \in Ids \cup {NoId}
    /\ cfgMapId \in Ids \cup {NoId}
    /\ htmlFile \in Snippets \cup {NoFile, Truncated}
    /\ exitCode \in {0, 1}
    /\ runs \in 0..MaxRuns

(* ------------------------- reading the trace --------------------------- *)
Idx == 1..Len(calls)
HasOp(op) == \E i \in Idx : calls[i].op = op
Failed(op) == \E i \in Idx : calls[i].op = op /\ ~calls[i].ok
Succeeded(op) == \E i \in Idx : calls[i].op = op /\ calls[i].ok

RemoteOps == {"create", "configure", "tooltip", "data", "timestamp", "publish"}

StepOrder == <<"create", "configure", "tooltip", "data", "publish", "write_html">>

IsPrefix(s, t) == Len(s) <= Len(t) /\ \A i \in 1..Len(s) : s[i] = t[i]

StepsTaken == SelectSeq(calls, LAMBDA c : \E k \in 1..Len(StepOrder) : StepOrder[k] = c.op)

StepNames == [i \in 1..Len(StepsTaken) |-> StepsTaken[i].op]

(* the last remote call made before position i of the trace *)
LastRemoteBefore(i) ==
    LET R == {j \in 1..(i - 1) : calls[j].op \in RemoteOps}
    IN IF R = {} THEN 0 ELSE CHOOSE j \in R : \A k \in R : k <= j

(* C1: in a create run the steps attempted so far are an initial part of   *)
(* create, configure, setTooltip, pushData, publish, artifact write, in    *)
(* that order, whatever each call answered, and the publish request is the *)
(* last remote call before the artifact is written.                        *)
C1_StepOrderFixed ==
    run_type = "create" =>
        /\ IsPrefix(StepNames, StepOrder)
        /\ \A i \in Idx : calls[i].op = "write_html" =>
               /\ LastRemoteBefore(i) # 0
               /\ calls[LastRemoteBefore(i)].op = "publish"

C1_Witness ==
    /\ run_type = "create"
    /\ status = "exit"
    /\ StepNames = StepOrder
    /\ Failed("configure")
    /\ Failed("data")

(* C2: when the create call fails (error status, body without 'id'), the   *)
(* create run still attempts configure, setTooltip, pushData, the          *)
(* timestamp and publish, and does not end in an exception.                *)
C2_ContinuesAfterFailedCreate ==
    (run_type = "create" /\ status = "exit" /\ Failed("create")) =>
        /\ exc = "none"
        /\ \A op \in {"configure", "tooltip", "data", "timestamp", "publish"} : HasOp(op)

(* C3: whichever remote calls fail, in a create or an update run, no       *)
(* exception leaves the workflow: the run ends after its final step with   *)
(* exit code 0.                                                            *)
C3_NoExceptionEscapes ==
    status = "exit" => (exc = "none" /\ exitCode = 0 /\ pc = 0)

(* C4: after a successful create the id in config.ini is the id of the     *)
(* create response and is written before configure is attempted; an update *)
(* run started from that store addresses every request to that id and      *)
(* issues no create request.                                               *)
C4_PersistedIdReused ==
    /\ (run_type = "create" /\ Succeeded("create")) =>
          /\ cfgMapId = created
          /\ \E i \in Idx :
                /\ calls[i].op = "create" /\ calls[i].ret = created
                /\ i < Len(calls)
                /\ calls[i + 1].op = "set_map_id" /\ calls[i + 1].id = created
                /\ \A j \in Idx : calls[j].op = "configure" => j > i + 1
    /\ run_type = "update" =>
          /\ ~HasOp("create")
          /\ \A i \in Idx : calls[i].id = cfgAtStart
          /\ created # NoId => cfgAtStart = created

C4_Witness ==
    /\ run_type = "update"
    /\ status = "exit"
    /\ runs >= 2
    /\ created # NoId
    /\ HasOp("data") /\ HasOp("timestamp") /\ HasOp("publish")

(* C5: an update run issues only pushData, the timestamp and publish, no   *)
(* create, configure or setTooltip request, and leaves the embed artifact  *)
(* file unchanged.                                                         *)
C5_UpdateLeavesArtifact ==
    run_type = "update" =>
        /\ ~HasOp("create") /\ ~HasOp("configure") /\ ~HasOp("tooltip")
        /\ ~HasOp("write_html")
        /\ htmlFile = htmlAtStart

(* C6: a mode other than create and update issues no network call, leaves  *)
(* the persisted id and the artifact file unchanged and exits normally.    *)
C6_OtherModeDoesNothing ==
    run_type = "other" =>
        /\ calls = <<>>
        /\ sent = NoPayload
        /\ cfgMapId = cfgAtStart
        /\ htmlFile = htmlAtStart
        /\ status = "exit" /\ exc = "none" /\ exitCode = 0

C6_Witness ==
    /\ run_type = "other"
    /\ status = "exit"
    /\ cfgMapId # NoId
    /\ htmlFile # NoFile

(* the body sent, cut at its newlines *)
NewlineAt(p) == {i \in 1..Len(p) : p[i] = "\n"}

NthNewline(p, k) ==
    IF k = 0 THEN 0
    ELSE CHOOSE i \in NewlineAt(p) : Cardinality({j \in NewlineAt(p) : j < i}) = k - 1

LineOf(p, k) == SubSeq(p, NthNewline(p, k - 1) + 1, NthNewline(p, k) - 1)

(* the fields of a row with ", " between neighbours, built from the right *)
RECURSIVE RowText(_, _)
RowText(row, n) ==
    IF n = 0 THEN <<>>
    ELSE IF n = 1 THEN row[1]
    ELSE RowText(row, n - 1) \o <<",", " ">> \o row[n]

(* C7: the body sent by pushData has one newline-terminated line per csv   *)
(* row, in the rows' order, the k-th line being the k-th row's fields      *)
(* joined by ", "; nothing is reordered, dropped or deduplicated, and the  *)
(* empty file gives the empty body.                                        *)
C7_PayloadIsRowsInOrder ==
    HasOp("data") =>
        /\ Cardinality(NewlineAt(sent)) = Len(csvRows)
        /\ (csvRows = <<>> => sent = <<>>)
        /\ (sent # <<>> => sent[Len(sent)] = "\n")
        /\ \A k \in 1..Len(csvRows) :
               LineOf(sent, k) = RowText(csvRows[k], Len(csvRows[k]))

C7_Witness ==
    /\ HasOp("data")
    /\ Len(csvRows) = 2
    /\ csvRows[1] = csvRows[2]
    /\ Len(csvRows[1]) = 2
    /\ csvRows[1][1] # <<>>
    /\ sent = <<"A", ",", " ", "5", "\n", "A", ",", " ", "5", "\n">>

(* C8: in create and update runs alike every publish request comes right   *)
(* after exactly one timestamp request for the same map id, and the        *)
(* publish request follows whether or not the timestamp or the data call   *)
(* failed.                                                                 *)
C8_StampThenPublish ==
    /\ \A i \in Idx : calls[i].op = "publish" =>
          /\ i >= 2
          /\ calls[i - 1].op = "timestamp"
          /\ calls[i - 1].id = calls[i].id
          /\ (i >= 3 => calls[i - 2].op # "timestamp")
    /\ \A i \in Idx : calls[i].op = "timestamp" =>
          IF i < Len(calls) THEN calls[i + 1].op = "publish"
          ELSE AtStep("publish_request")
    /\ (status = "exit" /\ HasOp("data")) => HasOp("publish")

C8_Witness ==
    /\ run_type = "update"
    /\ Failed("data")
    /\ Failed("timestamp")
    /\ HasOp("publish")

(* C9: config.ini's map id is rewritten only by a successful create: a run *)
(* whose create fails, an update run and an unrecognised-mode run leave it *)
(* as it was at the start; it is never removed, and a new value is always  *)
(* the id of a create response.                                            *)
C9_IdRewrittenOnlyByCreate ==
    /\ run_type \in {"update", "other"} => cfgMapId = cfgAtStart
    /\ (run_type = "create" /\ ~Succeeded("create")) => cfgMapId = cfgAtStart
    /\ cfgAtStart # NoId => cfgMapId # NoId
    /\ cfgMapId # cfgAtStart =>
          \E i \in Idx : calls[i].op = "create" /\ calls[i].ok /\ calls[i].ret = cfgMapId

C9_Witness ==
    /\ run_type = "create"
    /\ status = "exit"
    /\ Failed("create")
    /\ cfgAtStart # NoId
    /\ cfgMapId = cfgAtStart

=============================================================================
